---- MODULE Spec2Model ----
(***************************************************************************)
(* Model of the NASRO GPT chat client: the request layer                   *)
(* (services/geminiService.ts), the App component that owns the            *)
(* conversation list and the InputArea component that triggers sends.      *)
(*                                                                         *)
(* Strings are sequences of symbols.  ASCII text that the code inspects    *)
(* (prompts, error messages) is spelled one character per symbol; a fixed  *)
(* localized message of the code is one symbol; a data URI is the symbols  *)
(* "data:image/", <type>, ";base64," followed by the payload symbols.      *)
(* undefined, null and '' are all the empty sequence where the code only   *)
(* tests truthiness (image, generatedImage, text).                         *)
(***************************************************************************)
EXTENDS Integers, Sequences, FiniteSets, TLC

VARIABLES
    apiKey,         \* process.env.API_KEY as replaced at build time
    ai,             \* TRUE iff the module-level client `ai` was constructed
    messages,       \* App: the conversation list
    isLoading,      \* App: request outstanding flag
    text,           \* InputArea: textarea content
    attachedImage,  \* InputArea: attached data URI (<<>> = null)
    calls           \* sendMessageToGemini invocations not yet consumed by their caller

vars == <<apiKey, ai, messages, isLoading, text, attachedImage, calls>>

-----------------------------------------------------------------------------
(* Bounds *)

MaxSends == 2      \* sends accepted by the UI in one session
MaxHistory == 2    \* length of a history handed directly to sendMessageToGemini

HistoryWindow == 5 \* messages.slice(-5)

-----------------------------------------------------------------------------
(* String primitives *)

Empty == <<>>

Whitespace == {" ", "\t", "\n"}

StartsWith(s, p) ==
    /\ Len(p) <= Len(s)
    /\ SubSeq(s, 1, Len(p)) = p

Includes(s, sub) ==
    \E i \in 0..(Len(s) - Len(sub)) : SubSeq(s, i + 1, i + Len(sub)) = sub

RECURSIVE TrimStart(_)
TrimStart(s) ==
    IF s # Empty /\ Head(s) \in Whitespace THEN TrimStart(Tail(s)) ELSE s

RECURSIVE TrimEnd(_)
TrimEnd(s) ==
    IF s # Empty /\ s[Len(s)] \in Whitespace
    THEN TrimEnd(SubSeq(s, 1, Len(s) - 1))
    ELSE s

Trim(s) == TrimEnd(TrimStart(s))

UpperToLower ==
    [c \in {"A", "D", "E", "F", "G", "I", "M", "O", "R", "W"} |->
        CASE c = "A" -> "a" [] c = "D" -> "d" [] c = "E" -> "e"
          [] c = "F" -> "f" [] c = "G" -> "g" [] c = "I" -> "i"
          [] c = "M" -> "m" [] c = "O" -> "o" [] c = "R" -> "r"
          [] c = "W" -> "w"]

LowerChar(c) == IF c \in DOMAIN UpperToLower THEN UpperToLower[c] ELSE c

ToLowerCase(s) == [i \in DOMAIN s |-> LowerChar(s[i])]

Truthy(s) == s # Empty

-----------------------------------------------------------------------------
(* Request classifier *)

\* Arabic letters are written by name.
Keywords == {
    <<"alef", "reh", "seen", "meem">>,
    <<"reh", "seen", "meem">>,
    <<"sad", "waw", "reh", "teh-marbuta">>,
    <<"teh", "khah", "yeh", "lam">>,
    <<"alef-hamza", "noon", "sheen", "yeh-hamza", " ", "sad", "waw", "reh", "teh-marbuta">>,
    <<"alef", "noon", "sheen", "yeh-hamza", " ", "sad", "waw", "reh", "teh-marbuta">>,
    <<"d", "r", "a", "w">>,
    <<"g", "e", "n", "e", "r", "a", "t", "e", " ", "i", "m", "a", "g", "e">>,
    <<"c", "r", "e", "a", "t", "e", " ", "i", "m", "a", "g", "e">>,
    <<"p", "i", "c", "t", "u", "r", "e", " ", "o", "f">>,
    <<"i", "m", "a", "g", "e", " ", "o", "f">> }

\* Faulty variant: matches a keyword anywhere in the prompt.
isImageGenerationRequest_anywhere(txt) ==
    \E keyword \in Keywords : Includes(Trim(ToLowerCase(txt)), keyword)

isImageGenerationRequest(txt) ==
    \E keyword \in Keywords : StartsWith(Trim(ToLowerCase(txt)), keyword)

-----------------------------------------------------------------------------
(* Fixed messages of the request layer and of App *)

ChatModel == "gemini-3-flash-preview"
ImageModel == "gemini-2.5-flash-image"

MsgKeyMissing == <<"[sorry, API key missing; add API_KEY to the deployment settings and rebuild]">>
MsgInitFailed == <<"[sorry, the AI service failed to initialise]">>
MsgImageCreated == <<"[the image was created as you asked:]">>
MsgCouldNotProcess == <<"[sorry, I could not process the request]">>
MsgConnection == <<"[an error occurred while contacting the server]">>
MsgInvalidKey == <<"[API key invalid or inactive; please check it]">>
MsgQuota == <<"[request limit exceeded (Quota Exceeded); try again later]">>
MsgModelUnavailable == <<"[model currently unavailable (", ChatModel, ") or the key has no access to it]">>
MsgTechnicalPrefix == <<"[a technical error occurred: ]">>
MsgUnexpected == <<"[sorry, an unexpected error occurred]">>

sAPIkey == <<"A", "P", "I", " ", "k", "e", "y">>
s429 == <<"4", "2", "9">>
s404 == <<"4", "0", "4">>

-----------------------------------------------------------------------------
(* Thrown values and results *)

\* A value a provider call can reject with.  kind "nullish": null or undefined;
\* kind "object": an object whose message property is absent, a string, or a
\* truthy non-string (msgType "number").
NoError == [kind |-> "none", msgType |-> "absent", msg |-> Empty]
ErrNullish == [kind |-> "nullish", msgType |-> "absent", msg |-> Empty]
ErrNoMessage == [kind |-> "object", msgType |-> "absent", msg |-> Empty]
ErrNumberMessage == [kind |-> "object", msgType |-> "number", msg |-> Empty]
ErrString(m) == [kind |-> "object", msgType |-> "string", msg |-> m]

\* The TypeError the runtime raises when a property of undefined is read.
TypeErrorReading == ErrString(<<"Cannot read properties of undefined">>)

Resolved(t, img) == [status |-> "resolved", text |-> t, generatedImage |-> img]
Rejected == [status |-> "rejected", text |-> Empty, generatedImage |-> Empty]
Pending == [status |-> "pending", text |-> Empty, generatedImage |-> Empty]

\* Faulty variant: the 429 test comes before the 'API key' test.
TranslateMessage_quotaFirst(m) ==
    IF Includes(m, s429) THEN MsgQuota
    ELSE IF Includes(m, sAPIkey) THEN MsgInvalidKey
    ELSE IF Includes(m, s404) THEN MsgModelUnavailable
    ELSE MsgTechnicalPrefix \o m

\* The if / else-if chain over error.message, a non-empty string.
TranslateMessage(m) ==
    IF Includes(m, sAPIkey) THEN MsgInvalidKey
    ELSE IF Includes(m, s429) THEN MsgQuota
    ELSE IF Includes(m, s404) THEN MsgModelUnavailable
    ELSE MsgTechnicalPrefix \o m

\* The outer catch block.  Reading error.message of null/undefined raises a
\* TypeError inside the catch block, and so does calling .includes on a
\* message that is not a string: the async function then rejects.
CatchBlock(error) ==
    IF error.kind = "nullish" THEN Rejected
    ELSE IF error.msgType = "absent" THEN Resolved(MsgConnection, Empty)
    ELSE IF error.msgType = "number" THEN Rejected
    ELSE IF ~Truthy(error.msg) THEN Resolved(MsgConnection, Empty)
    ELSE Resolved(TranslateMessage(error.msg), Empty)

-----------------------------------------------------------------------------
(* Data URIs *)

StrippedTypes == {"png", "jpeg", "jpg", "webp"}

DataUri(type, bytes) == <<"data:image/", type, ";base64,">> \o bytes

\* s.replace(/^data:image\/(png|jpeg|jpg|webp);base64,/, '')
StripDataUri(s) ==
    IF /\ Len(s) >= 3
       /\ s[1] = "data:image/"
       /\ s[2] \in StrippedTypes
       /\ s[3] = ";base64,"
    THEN SubSeq(s, 4, Len(s))
    ELSE s

\* `data:image/png;base64,${part.inlineData.data}`
GeneratedImageUri(bytes) == <<"data:image/", "png", ";base64,">> \o bytes

-----------------------------------------------------------------------------
(* Provider request construction *)

InlinePart(d) == [type |-> "inlineData", data |-> d, mimeType |-> "image/jpeg", text |-> Empty]
TextPart(t) == [type |-> "text", data |-> Empty, mimeType |-> "", text |-> t]

\* Faulty variant: the isGeneratedImage test is missing.
HistoryImageParts_resend(msg) ==
    IF Truthy(msg.image)
    THEN <<InlinePart(StripDataUri(msg.image))>>
    ELSE <<>>

HistoryImageParts(msg) ==
    IF Truthy(msg.image) /\ ~msg.isGeneratedImage
    THEN <<InlinePart(StripDataUri(msg.image))>>
    ELSE <<>>

HistoryTextParts(msg) ==
    IF Truthy(msg.text) THEN <<TextPart(msg.text)>> ELSE <<>>

HistoryEntry(msg) ==
    [role |-> IF msg.role = "user" THEN "user" ELSE "model",
     parts |-> HistoryImageParts(msg) \o HistoryTextParts(msg)]

NonEmptyEntry(content) == Len(content.parts) > 0

\* Faulty variant: empty entries are kept.
FlattenHistory_keepEmpty(history) ==
    [k \in DOMAIN history |-> HistoryEntry(history[k])]

\* history.map(...).filter(content => content.parts.length > 0)
FlattenHistory(history) ==
    SelectSeq([k \in DOMAIN history |-> HistoryEntry(history[k])], NonEmptyEntry)

CurrentEntry(prompt, imageBase64) ==
    [role |-> "user",
     parts |-> (IF Truthy(imageBase64)
                THEN <<InlinePart(StripDataUri(imageBase64))>>
                ELSE <<>>) \o <<TextPart(prompt)>>]

BuildContents(history, prompt, imageBase64) ==
    Append(FlattenHistory(history), CurrentEntry(prompt, imageBase64))

ImageRequest(prompt) ==
    [kind |-> "image", model |-> ImageModel,
     contents |-> <<[role |-> "", parts |-> <<TextPart(prompt)>>]>>]

ChatRequest(contents) ==
    [kind |-> "chat", model |-> ChatModel, contents |-> contents]

-----------------------------------------------------------------------------
(* Provider responses *)

NoResponse ==
    [kind |-> "none", hasParts |-> FALSE, parts |-> <<>>, text |-> Empty, error |-> NoError]
Resolve(hasParts, parts, t) ==
    [kind |-> "resolve", hasParts |-> hasParts, parts |-> parts, text |-> t, error |-> NoError]
Reject(e) ==
    [kind |-> "reject", hasParts |-> FALSE, parts |-> <<>>, text |-> Empty, error |-> e]
\* The call resolves with undefined: reading a property of it throws.
Malformed ==
    [kind |-> "malformed", hasParts |-> FALSE, parts |-> <<>>, text |-> Empty, error |-> NoError]

RespInline(bytes) == [inlineData |-> bytes, text |-> Empty]
RespText(t) == [inlineData |-> Empty, text |-> t]

GenBytes == <<"g1">>
ReplyText == <<"o", "k">>

ImageResponses == {
    Resolve(TRUE, <<RespInline(GenBytes)>>, Empty),
    Resolve(TRUE, <<RespText(ReplyText), RespInline(GenBytes)>>, ReplyText),
    Resolve(TRUE, <<RespText(ReplyText)>>, ReplyText),
    Resolve(FALSE, <<>>, Empty),
    Reject(ErrString(s429)),
    Reject(ErrNullish),
    Malformed }

ChatResponses == {
    Resolve(FALSE, <<>>, ReplyText),
    Resolve(FALSE, <<>>, Empty),
    Malformed,
    Reject(ErrNullish),
    Reject(ErrNoMessage),
    Reject(ErrNumberMessage),
    Reject(ErrString(Empty)),
    Reject(ErrString(sAPIkey)),
    Reject(ErrString(s429)),
    Reject(ErrString(s404)),
    Reject(ErrString(s404 \o <<" ">> \o s429 \o <<" ">> \o sAPIkey)),
    Reject(ErrString(s404 \o <<" ">> \o s429)),
    Reject(ErrString(<<"b", "o", "o", "m">>)) }

-----------------------------------------------------------------------------
(* sendMessageToGemini: one invocation *)

\* pc: "new" (not yet entered), "awaitImage" / "awaitChat" (suspended at the
\* await of the image-capable / conversational request), "settled".
\* reqs: the provider requests the invocation has issued, in order.
\* imgResp, chatResp: what the provider answered, kept for the record.
NewCall(prompt, imageBase64, history) ==
    [prompt |-> prompt, image |-> imageBase64, history |-> history,
     pc |-> "new", reqs |-> <<>>, result |-> Pending,
     imgResp |-> NoResponse, chatResp |-> NoResponse]

Settle(c, r) == [c EXCEPT !.pc = "settled", !.result = r]

\* Faulty variant: the client check comes before the credential check.
Guards_clientFirst(key, aiReady) ==
    IF ~aiReady THEN "initFailed"
    ELSE IF ~Truthy(key) THEN "keyMissing"
    ELSE "pass"

\* if (!process.env.API_KEY) ...; if (!ai) ...
Guards(key, aiReady) ==
    IF ~Truthy(key) THEN "keyMissing"
    ELSE IF ~aiReady THEN "initFailed"
    ELSE "pass"

\* Faulty variant: an attachment no longer rules the image path out.
WantsImage_ignoreAttachment(prompt, imageBase64) ==
    isImageGenerationRequest(prompt)

\* if (!imageBase64 && isImageGenerationRequest(prompt))
WantsImage(prompt, imageBase64) ==
    ~Truthy(imageBase64) /\ isImageGenerationRequest(prompt)

\* Builds the contents and issues the conversational request (up to its await).
IssueChat(c) ==
    [c EXCEPT !.pc = "awaitChat",
              !.reqs = Append(@, ChatRequest(BuildContents(c.history, c.prompt, c.image)))]

\* Faulty variant: no inner try/catch, the failure reaches the outer catch.
OnImageFailure_surface(c, error) == Settle(c, CatchBlock(error))

\* catch (genError) { console.error(...) } and fall through to the chat path.
OnImageFailure(c, error) == IssueChat(c)

\* The function body from its entry to its first await or return.
Start(c) ==
    LET g == Guards(apiKey, ai) IN
    IF g = "keyMissing" THEN Settle(c, Resolved(MsgKeyMissing, Empty))
    ELSE IF g = "initFailed" THEN Settle(c, Resolved(MsgInitFailed, Empty))
    ELSE IF WantsImage(c.prompt, c.image)
         THEN [c EXCEPT !.pc = "awaitImage", !.reqs = Append(@, ImageRequest(c.prompt))]
         ELSE IssueChat(c)

\* Index of the first part with non-empty inline data, 0 when there is none.
FirstInline(parts) ==
    LET hits == {k \in DOMAIN parts : Truthy(parts[k].inlineData)} IN
    IF hits = {} THEN 0 ELSE CHOOSE k \in hits : \A j \in hits : k <= j

\* The continuation after the image-capable request's await.
AfterImage(c0, resp) ==
    LET c == [c0 EXCEPT !.imgResp = resp] IN
    IF resp.kind = "reject" THEN OnImageFailure(c, resp.error)
    ELSE IF resp.kind = "malformed" THEN OnImageFailure(c, TypeErrorReading)
    ELSE LET k == IF resp.hasParts THEN FirstInline(resp.parts) ELSE 0 IN
         IF k > 0
         THEN Settle(c, Resolved(MsgImageCreated, GeneratedImageUri(resp.parts[k].inlineData)))
         ELSE IF Truthy(resp.text) THEN Settle(c, Resolved(resp.text, Empty))
         ELSE IssueChat(c)

\* The continuation after the conversational request's await.
AfterChat(c0, resp) ==
    LET c == [c0 EXCEPT !.chatResp = resp] IN
    IF resp.kind = "reject" THEN Settle(c, CatchBlock(resp.error))
    ELSE IF resp.kind = "malformed" THEN Settle(c, CatchBlock(TypeErrorReading))
    ELSE Settle(c, Resolved(IF Truthy(resp.text) THEN resp.text ELSE MsgCouldNotProcess, Empty))

RemoveAt(s, i) == SubSeq(s, 1, i - 1) \o SubSeq(s, i + 1, Len(s))

\* A direct caller enters the function.
Invoke ==
    /\ \E i \in DOMAIN calls :
        /\ calls[i].pc = "new"
        /\ calls' = [calls EXCEPT ![i] = Start(calls[i])]
    /\ UNCHANGED <<apiKey, ai, messages, isLoading, text, attachedImage>>

\* The provider answers the image-capable request.
ImageResponds ==
    /\ \E i \in DOMAIN calls, resp \in ImageResponses :
        /\ calls[i].pc = "awaitImage"
        /\ calls' = [calls EXCEPT ![i] = AfterImage(calls[i], resp)]
    /\ UNCHANGED <<apiKey, ai, messages, isLoading, text, attachedImage>>

\* The provider answers the conversational request.
ChatResponds ==
    /\ \E i \in DOMAIN calls, resp \in ChatResponses :
        /\ calls[i].pc = "awaitChat"
        /\ calls' = [calls EXCEPT ![i] = AfterChat(calls[i], resp)]
    /\ UNCHANGED <<apiKey, ai, messages, isLoading, text, attachedImage>>

-----------------------------------------------------------------------------
(* App and InputArea *)

UserBytes == <<"u1">>
JpegUri == DataUri("jpeg", UserBytes)
GifUri == DataUri("gif", UserBytes)

sDraw == <<"d", "r", "a", "w", " ", "x">>
sHi == <<"h", "i">>

UiTexts == {sDraw, sHi, <<" ">>}
\* What FileReader.readAsDataURL yields for the files the picker admits (image/*).
UiImages == {JpegUri}

Message(role, t, image, generated) ==
    [role |-> role, text |-> t, image |-> image, isGeneratedImage |-> generated]

\* messages.slice(-n)
LastN(s, n) == SubSeq(s, IF Len(s) > n THEN Len(s) - n + 1 ELSE 1, Len(s))

\* Faulty variant: the isLoading test is missing.
SendIgnored_noLoadingTest(t, image, loading) ==
    ~Truthy(Trim(t)) /\ ~Truthy(image)

\* if ((!text.trim() && !attachedImage) || isLoading) return;
SendIgnored(t, image, loading) ==
    (~Truthy(Trim(t)) /\ ~Truthy(image)) \/ loading

\* textarea onChange (the textarea is disabled while isLoading)
TypeText ==
    /\ ~isLoading
    /\ \E t \in UiTexts : text' = t
    /\ UNCHANGED <<apiKey, ai, messages, isLoading, attachedImage, calls>>

\* handleFileChange and the reader's onloadend
AttachImage ==
    /\ \E uri \in UiImages : attachedImage' = uri
    /\ UNCHANGED <<apiKey, ai, messages, isLoading, text, calls>>

\* the preview's remove button
RemoveImage ==
    /\ Truthy(attachedImage)
    /\ attachedImage' = Empty
    /\ UNCHANGED <<apiKey, ai, messages, isLoading, text, calls>>

\* InputArea.handleSend, App.handleSend up to its await, and with it the body
\* of sendMessageToGemini up to its first await or return.  The handler runs
\* to its await within one event, and React applies the state updates of a
\* click or key event before the next event is dispatched, so the step is
\* atomic; `messages` read by slice(-5) is the list before the append.
handleSend ==
    IF SendIgnored(text, attachedImage, isLoading)
    THEN UNCHANGED vars
    ELSE /\ Len(messages) < 2 * MaxSends
         /\ messages' = Append(messages, Message("user", text, attachedImage, FALSE))
         /\ isLoading' = TRUE
         /\ calls' = Append(calls,
                Start(NewCall(text, attachedImage, LastN(messages, HistoryWindow))))
         /\ text' = Empty
         /\ attachedImage' = Empty
         /\ UNCHANGED <<apiKey, ai>>

\* Send button onClick
ClickSend == handleSend

\* handleKeyDown: Enter without Shift
PressEnter == handleSend

\* Faulty variant: setIsLoading(false) sits at the end of the try block instead
\* of in a finally, so a rejected call leaves isLoading set.
AppResume_noFinally ==
    /\ \E i \in DOMAIN calls :
        /\ calls[i].pc = "settled"
        /\ LET r == calls[i].result IN
           /\ messages' = Append(messages,
                IF r.status = "resolved"
                THEN Message("model", r.text, r.generatedImage, Truthy(r.generatedImage))
                ELSE Message("model", MsgUnexpected, Empty, FALSE))
           /\ isLoading' = (r.status # "resolved")
        /\ calls' = RemoveAt(calls, i)
    /\ UNCHANGED <<apiKey, ai, text, attachedImage>>

\* App.handleSend after its await: the try's tail, the catch and the finally.
AppResume ==
    /\ \E i \in DOMAIN calls :
        /\ calls[i].pc = "settled"
        /\ LET r == calls[i].result IN
           messages' = Append(messages,
                IF r.status = "resolved"
                THEN Message("model", r.text, r.generatedImage, Truthy(r.generatedImage))
                ELSE Message("model", MsgUnexpected, Empty, FALSE))
        /\ calls' = RemoveAt(calls, i)
    /\ isLoading' = FALSE
    /\ UNCHANGED <<apiKey, ai, text, attachedImage>>

-----------------------------------------------------------------------------
(* Specifications *)

ValidKey == <<"k">>

\* Module initialisation: ai is constructed only with a non-empty key, and the
\* constructor may throw.
Environments ==
    {e \in [apiKey : {Empty, ValidKey}, ai : BOOLEAN] : e.ai => Truthy(e.apiKey)}

\* The application after its first render.
Init ==
    /\ \E e \in Environments : apiKey = e.apiKey /\ ai = e.ai
    /\ messages = <<>>
    /\ isLoading = FALSE
    /\ text = Empty
    /\ attachedImage = Empty
    /\ calls = <<>>

Next ==
    \/ TypeText
    \/ AttachImage
    \/ RemoveImage
    \/ ClickSend
    \/ PressEnter
    \/ ImageResponds
    \/ ChatResponds
    \/ AppResume

Spec == Init /\ [][Next]_vars

\* The continuation of an await whose promise has settled is a queued job of
\* the event loop and always runs.  Nothing makes the provider answer (there
\* is no timeout), so its answers carry no fairness.
SpecLive == Init /\ [][Next]_vars /\ WF_vars(AppResume)

\* sendMessageToGemini called directly with arbitrary arguments.
Prompts == {
    sDraw,
    <<" ", "D", "R", "A", "W", "\n">>,
    <<"x", " ", "d", "r", "a", "w">>,
    <<"a", "n", " ", "i", "m", "a", "g", "e", " ", "o", "f", " ", "x">>,
    <<"alef", "reh", "seen", "meem", " ", "x">>,
    sHi,
    Empty }

Images == {Empty, JpegUri, GifUri}

HistoryTurns ==
    {Message(role, t, im.image, im.generated) :
        role \in {"user", "model"},
        t \in {Empty, sHi},
        im \in {[image |-> Empty, generated |-> FALSE],
                [image |-> JpegUri, generated |-> FALSE],
                [image |-> GeneratedImageUri(GenBytes), generated |-> TRUE]}}

Histories == UNION {[1..n -> HistoryTurns] : n \in 0..MaxHistory}

InitSend ==
    /\ \E e \in Environments : apiKey = e.apiKey /\ ai = e.ai
    /\ messages = <<>>
    /\ isLoading = FALSE
    /\ text = Empty
    /\ attachedImage = Empty
    /\ \E p \in Prompts, im \in Images, h \in Histories :
        calls = <<NewCall(p, im, h)>>

NextSend ==
    \/ Invoke
    \/ ImageResponds
    \/ ChatResponds

SpecSend == InitSend /\ [][NextSend]_vars

-----------------------------------------------------------------------------
(* Properties *)

IsImageReq(r) == r.kind = "image"
IsChatReq(r) == r.kind = "chat"
ImageReqs(c) == SelectSeq(c.reqs, IsImageReq)
ChatReqs(c) == SelectSeq(c.reqs, IsChatReq)

\* The invocation has passed the credential and initialisation guards.
PastGuards(c) == c.pc # "new" /\ Truthy(apiKey) /\ ai

\* The image-generation attempt failed: its call rejected, or reading its
\* response threw.
ImageAttemptFailed(c) == c.imgResp.kind \in {"reject", "malformed"}

\* The conversational call failed, and the value that reached the catch block.
ChatFailed(c) == c.chatResp.kind \in {"reject", "malformed"}
ChatError(c) ==
    IF c.chatResp.kind = "reject" THEN c.chatResp.error ELSE TypeErrorReading

\* C1: with the credential absent or empty, every invocation that has been
\* entered is settled with the fixed 'API key missing' Outcome (text only, no
\* generated image) and has issued no provider request at all, whatever the
\* prompt, image and history, and also when the client was never constructed
\* (the credential check comes before the client check).
C1_KeyMissingShortCircuits ==
    \A i \in DOMAIN calls :
        (~Truthy(apiKey) /\ calls[i].pc # "new") =>
            /\ calls[i].pc = "settled"
            /\ calls[i].result.status = "resolved"
            /\ calls[i].result.text = MsgKeyMissing
            /\ calls[i].result.generatedImage = Empty
            /\ calls[i].reqs = <<>>

C1_Witness ==
    \E i \in DOMAIN calls :
        /\ ~Truthy(apiKey) /\ ~ai
        /\ calls[i].pc = "settled"
        /\ calls[i].prompt = sDraw
        /\ calls[i].history # <<>>
        /\ calls[i].result.text = MsgKeyMissing

\* C2: when the image-generation attempt fails, the failure is suppressed:
\* exactly one conversational request follows the image request, its entries
\* are the flattened history followed by the current turn (the current turn
\* alone when the history is empty), and an Outcome the invocation returns is
\* the conversational call's text, the empty-text fallback or the translation
\* of the conversational call's error, never anything of the image attempt.
C2_ImageFailureFallsBack ==
    \A i \in DOMAIN calls :
        LET c == calls[i] IN
        ImageAttemptFailed(c) =>
            /\ c.pc \in {"awaitChat", "settled"}
            /\ Len(c.reqs) = 2
            /\ c.reqs[1].kind = "image"
            /\ c.reqs[2].kind = "chat"
            /\ LET contents == c.reqs[2].contents IN
                /\ contents[Len(contents)] =
                       [role |-> "user", parts |-> <<TextPart(c.prompt)>>]
                /\ SubSeq(contents, 1, Len(contents) - 1) = FlattenHistory(c.history)
                /\ c.history = <<>> => Len(contents) = 1
            /\ (c.pc = "settled") = (c.chatResp.kind # "none")
            /\ (c.pc = "settled" /\ c.result.status = "resolved") =>
                /\ c.result.generatedImage = Empty
                /\ c.chatResp.kind = "resolve" =>
                       c.result.text = (IF Truthy(c.chatResp.text)
                                        THEN c.chatResp.text
                                        ELSE MsgCouldNotProcess)
                /\ ChatFailed(c) => c.result = CatchBlock(ChatError(c))

C2_Witness ==
    \E i \in DOMAIN calls :
        /\ calls[i].imgResp = Reject(ErrString(s429))
        /\ calls[i].history = <<>>
        /\ calls[i].pc = "settled"
        /\ calls[i].chatResp.kind = "resolve"
        /\ calls[i].result.text = ReplyText

\* C3 (as claimed): every settled invocation has resolved with an Outcome
\* carrying a displayable (non-empty) string; it never rejects, whatever value
\* the provider call failed with.
C3_AlwaysResolvesWithOutcome ==
    \A i \in DOMAIN calls :
        calls[i].pc = "settled" =>
            /\ calls[i].result.status = "resolved"
            /\ Truthy(calls[i].result.text)

\* The message the priority chain of the claim picks for error text m.
PriorityMessage(m) ==
    IF Includes(m, sAPIkey) THEN MsgInvalidKey
    ELSE IF Includes(m, s429) THEN MsgQuota
    ELSE IF Includes(m, s404) THEN MsgModelUnavailable
    ELSE MsgTechnicalPrefix \o m

\* C4 (as claimed), for errors that carry a string message: the Outcome text is
\* the message the priority chain picks, the generic technical-error message
\* with the raw text when no substring matches.
C4_PriorityChainForEveryMessage ==
    \A i \in DOMAIN calls :
        LET c == calls[i] IN
        (c.pc = "settled" /\ ChatFailed(c) /\ ChatError(c).msgType = "string") =>
            /\ c.result.status = "resolved"
            /\ c.result.text = PriorityMessage(ChatError(c).msg)

\* C4 (amended): when the conversational call fails with an error object whose
\* message is absent or a string, exactly one message is chosen: the fixed
\* 'error while contacting the server' message when the message is absent or
\* empty; otherwise 'API key' -> invalid key, else '429' -> quota exceeded,
\* else '404' -> model unavailable (naming the model), else the technical-error
\* message followed by the raw text.  No request is issued after the failure.
C4_PriorityChainForNonEmptyMessage ==
    \A i \in DOMAIN calls :
        LET c == calls[i]
            e == ChatError(c)
        IN
        (/\ c.pc = "settled" /\ ChatFailed(c)
         /\ e.kind = "object" /\ e.msgType \in {"absent", "string"}) =>
            /\ c.result.status = "resolved"
            /\ c.result.generatedImage = Empty
            /\ ~Truthy(e.msg) => c.result.text = MsgConnection
            /\ Truthy(e.msg) =>
                /\ Includes(e.msg, sAPIkey) => c.result.text = MsgInvalidKey
                /\ (~Includes(e.msg, sAPIkey) /\ Includes(e.msg, s429)) =>
                       c.result.text = MsgQuota
                /\ (/\ ~Includes(e.msg, sAPIkey) /\ ~Includes(e.msg, s429)
                    /\ Includes(e.msg, s404)) =>
                       /\ c.result.text = MsgModelUnavailable
                       /\ Includes(c.result.text, <<ChatModel>>)
                /\ (/\ ~Includes(e.msg, sAPIkey) /\ ~Includes(e.msg, s429)
                    /\ ~Includes(e.msg, s404)) =>
                       c.result.text = MsgTechnicalPrefix \o e.msg
            /\ Len(ChatReqs(c)) = 1
            /\ c.reqs[Len(c.reqs)].kind = "chat"

C4_Witness ==
    \E i \in DOMAIN calls :
        /\ calls[i].pc = "settled"
        /\ calls[i].chatResp.kind = "reject"
        /\ Includes(calls[i].chatResp.error.msg, s429)
        /\ Includes(calls[i].chatResp.error.msg, s404)
        /\ Includes(calls[i].chatResp.error.msg, sAPIkey)
        /\ calls[i].result.text = MsgInvalidKey

\* The trimmed, lower-cased prompt starts with a trigger phrase.
StartsWithTrigger(p) ==
    \E keyword \in Keywords : StartsWith(ToLowerCase(Trim(p)), keyword)

\* The trimmed, lower-cased prompt contains a trigger phrase somewhere.
ContainsTrigger(p) ==
    \E keyword \in Keywords : Includes(ToLowerCase(Trim(p)), keyword)

\* C5: in every invocation past the guards, the image-capable request is
\* issued iff no image is attached and the trimmed, lower-cased prompt starts
\* with a trigger phrase; with an image attached the first (and only) request
\* is the conversational one.
C5_ImageRouteIffTextOnlyTrigger ==
    \A i \in DOMAIN calls :
        LET c == calls[i] IN
        PastGuards(c) =>
            /\ (ImageReqs(c) # <<>>) = (~Truthy(c.image) /\ StartsWithTrigger(c.prompt))
            /\ Len(ImageReqs(c)) <= 1
            /\ Truthy(c.image) =>
                /\ ImageReqs(c) = <<>>
                /\ c.reqs[1].kind = "chat"

C5_Witness ==
    \E i \in DOMAIN calls :
        /\ PastGuards(calls[i])
        /\ calls[i].prompt = sDraw
        /\ calls[i].image = JpegUri
        /\ calls[i].reqs[1].kind = "chat"

\* C6: a prompt that contains a trigger phrase somewhere but does not start
\* (trimmed, lower-cased) with any trigger phrase is routed conversationally
\* when nothing is attached: no image-capable request is issued and the first
\* request is the conversational one.
C6_MidStringTriggerIsConversational ==
    \A i \in DOMAIN calls :
        LET c == calls[i] IN
        (/\ PastGuards(c) /\ ~Truthy(c.image)
         /\ ContainsTrigger(c.prompt) /\ ~StartsWithTrigger(c.prompt)) =>
            /\ ImageReqs(c) = <<>>
            /\ c.reqs[1].kind = "chat"

C6_Witness ==
    \E i \in DOMAIN calls :
        /\ PastGuards(calls[i])
        /\ calls[i].image = Empty
        /\ calls[i].prompt = <<"x", " ", "d", "r", "a", "w">>
        /\ calls[i].reqs[1].kind = "chat"

\* The history turns that yield at least one content part.
Contributes(msg) ==
    Truthy(msg.text) \/ (Truthy(msg.image) /\ ~msg.isGeneratedImage)
Kept(history) == {k \in DOMAIN history : Contributes(history[k])}
Position(history, k) == Cardinality({j \in Kept(history) : j <= k})

PartTypes(entry) == [j \in DOMAIN entry.parts |-> entry.parts[j].type]

\* C7: the entry list of every conversational request is the history turns
\* that yield at least one part, in their original order (role user -> 'user',
\* otherwise 'model'; image part before text part), followed by the current
\* turn as the last entry with role 'user'; no entry has zero parts, none is
\* reordered or duplicated.
C7_EntriesAreHistoryThenCurrent ==
    \A i \in DOMAIN calls :
        LET c == calls[i] IN
        \A n \in DOMAIN c.reqs :
            c.reqs[n].kind = "chat" =>
                LET contents == c.reqs[n].contents
                    h == c.history
                IN
                /\ Len(contents) = Cardinality(Kept(h)) + 1
                /\ \A k \in Kept(h) :
                    LET e == contents[Position(h, k)] IN
                    /\ e.role = (IF h[k].role = "user" THEN "user" ELSE "model")
                    /\ PartTypes(e) =
                          (IF Truthy(h[k].image) /\ ~h[k].isGeneratedImage
                           THEN <<"inlineData">> ELSE <<>>)
                          \o (IF Truthy(h[k].text) THEN <<"text">> ELSE <<>>)
                    /\ e.parts[Len(e.parts)].type = "text" =>
                          e.parts[Len(e.parts)].text = h[k].text
                    /\ e.parts[1].type = "inlineData" =>
                          e.parts[1].data = StripDataUri(h[k].image)
                /\ LET last == contents[Len(contents)] IN
                    /\ last.role = "user"
                    /\ last.parts[Len(last.parts)] = TextPart(c.prompt)
                    /\ Len(last.parts) = (IF Truthy(c.image) THEN 2 ELSE 1)
                    /\ Truthy(c.image) => last.parts[1].type = "inlineData"
                /\ \A m \in DOMAIN contents : Len(contents[m].parts) >= 1

C7_Witness ==
    \E i \in DOMAIN calls :
        /\ Len(calls[i].history) = 2
        /\ ~Contributes(calls[i].history[1])
        /\ calls[i].history[2] = Message("model", sHi, Empty, FALSE)
        /\ calls[i].pc = "awaitChat"
        /\ Len(calls[i].reqs[Len(calls[i].reqs)].contents) = 2
        /\ calls[i].reqs[Len(calls[i].reqs)].contents[1].role = "model"

\* Symbols of payloads the provider generated.
ProviderSymbols == {GenBytes[j] : j \in DOMAIN GenBytes}

CarriesProviderBytes(part) ==
    part.type = "inlineData" /\ \E j \in DOMAIN part.data : part.data[j] \in ProviderSymbols

\* C8: after any sequence of sends through the UI, no conversational request
\* holds an inline-image part made of provider-generated bytes; every image
\* the provider generated sits in the conversation flagged as generated, and a
\* flagged history turn contributes its text part alone, or no entry when its
\* text is empty.
C8_GeneratedImagesNotResent ==
    /\ \A k \in DOMAIN messages :
        (Truthy(messages[k].image) /\ messages[k].role = "model") =>
            messages[k].isGeneratedImage
    /\ \A i \in DOMAIN calls :
        LET c == calls[i] IN
        \A n \in DOMAIN c.reqs :
            c.reqs[n].kind = "chat" =>
                LET contents == c.reqs[n].contents
                    h == c.history
                IN
                /\ \A m \in DOMAIN contents : \A j \in DOMAIN contents[m].parts :
                      ~CarriesProviderBytes(contents[m].parts[j])
                /\ \A k \in DOMAIN h :
                    h[k].isGeneratedImage =>
                        IF Truthy(h[k].text)
                        THEN /\ k \in Kept(h)
                             /\ contents[Position(h, k)].parts = <<TextPart(h[k].text)>>
                        ELSE Len(contents) <= Len(h)

C8_Witness ==
    \E i \in DOMAIN calls :
        /\ calls[i].pc = "awaitChat"
        /\ Len(calls[i].history) = 2
        /\ calls[i].history[2] =
              Message("model", MsgImageCreated, GeneratedImageUri(GenBytes), TRUE)
        /\ calls[i].reqs[1].contents[2].parts = <<TextPart(MsgImageCreated)>>

IsInline(part) == part.type = "inlineData"

\* C9 (as claimed): every inline-image part handed to the provider carries the
\* payload alone, the 'data:image/<type>;base64,' prefix stripped, for the
\* current attachment and for history images alike; a generated image is
\* surfaced as 'data:image/png;base64,' followed by the provider's bytes.
C9_PrefixAlwaysStripped ==
    \A i \in DOMAIN calls :
        LET c == calls[i] IN
        /\ \A n \in DOMAIN c.reqs : \A m \in DOMAIN c.reqs[n].contents :
            \A j \in DOMAIN c.reqs[n].contents[m].parts :
                LET part == c.reqs[n].contents[m].parts[j] IN
                IsInline(part) =>
                    /\ part.data = UserBytes
                    /\ \A x \in DOMAIN part.data :
                          part.data[x] \notin {"data:image/", ";base64,"}
        /\ (c.pc = "settled" /\ Truthy(c.result.generatedImage)) =>
              c.result.generatedImage = <<"data:image/", "png", ";base64,">> \o GenBytes

UserTurns == {k \in DOMAIN messages : messages[k].role = "user"}
ModelTurns == {k \in DOMAIN messages : messages[k].role = "model"}

\* C10: at most one invocation is outstanding; one is outstanding exactly
\* while isLoading holds; and the conversation alternates user turn, assistant
\* turn, so no second user turn is appended before the first request's reply:
\* a send trigger while isLoading changes nothing.
C10_SingleOutstandingRequest ==
    /\ Len(calls) <= 1
    /\ isLoading = (Len(calls) = 1)
    /\ \A k \in DOMAIN messages :
          messages[k].role = (IF k % 2 = 1 THEN "user" ELSE "model")
    /\ Cardinality(UserTurns) - Cardinality(ModelTurns) = (IF isLoading THEN 1 ELSE 0)

\* A request is in flight and the input holds an attachment, so that a click
\* or Enter passes the emptiness test and is stopped by isLoading alone.
C10_Witness ==
    /\ isLoading
    /\ Len(calls) = 1
    /\ calls[1].pc = "awaitChat"
    /\ Truthy(attachedImage)
    /\ ~(~Truthy(Trim(text)) /\ ~Truthy(attachedImage))
    /\ Len(messages) = 3

\* The provider call of the outstanding send has completed: the invocation
\* has settled (resolved or rejected) and App has not yet resumed.
CallCompleted == \E i \in DOMAIN calls : calls[i].pc = "settled"

AssistantTurnAppended ==
    /\ Len(messages') = Len(messages) + 1
    /\ SubSeq(messages', 1, Len(messages)) = messages
    /\ messages'[Len(messages')].role = "model"

\* C11: once the provider call of an accepted send has completed, App
\* eventually clears isLoading, whether the call resolved with a reply, with a
\* translated error, or rejected; the step that clears isLoading is taken from
\* a completed call and appends exactly one assistant turn, and while
\* isLoading stays set the conversation does not change.
C11_CompletedCallIsAnswered ==
    /\ CallCompleted ~> (~isLoading /\ ~CallCompleted)
    /\ [][/\ (isLoading /\ ~isLoading') => (CallCompleted /\ AssistantTurnAppended)
          /\ (isLoading /\ isLoading') => messages' = messages
          /\ (CallCompleted /\ ~CallCompleted') => ~isLoading']_vars

\* The call rejected, and App has appended its 'unexpected error' turn and
\* cleared isLoading.
C11_Witness ==
    /\ ~isLoading
    /\ calls = <<>>
    /\ Len(messages) = 2
    /\ messages[2] = Message("model", MsgUnexpected, Empty, FALSE)

====
